---- MODULE Spec2Model ----
(***************************************************************************)
(* HumanSign: the background service worker's EventChain (background.js,   *)
(* src/unnamed/part_003), the library EventChain (lib/chain.js,            *)
(* src/unnamed/part_002, with lib/crypto.js) and the verification script   *)
(* (verify.js, src/unnamed/part_001).                                      *)
(*                                                                         *)
(* Text is a sequence of one-character or one-lexeme tokens, so that the   *)
(* two JSON encoders of the repository produce different texts when they   *)
(* differ.  SHA-256 is a collision-free symbolic function of its input     *)
(* text; an RSA signature is the pair (key, signed text).                  *)
(*                                                                         *)
(* A handler of the worker is a coroutine: one action receives the message *)
(* and runs the handler to its first await of a platform operation         *)
(* (digest, storage, fetch, key import, sign, download), one action per    *)
(* such await resumes it and runs it to the next.  An await of a promise   *)
(* that is already settled only passes through the microtask queue, which  *)
(* is emptied before any other task runs, so it is no interleaving point.  *)
(***************************************************************************)
EXTENDS Integers, Sequences, FiniteSets, Bags, TLC

\* ---------------------------------------------------------------- bounds
\* messages the worker receives in one run (every timer, handler, event,
\* block and token of a run comes from one of them)
MaxMessages == 4
\* handlers suspended at the same time
MaxHandlers == 2

\* background.js: const BLOCK_SIZE_THRESHOLD = 50, scaled down to keep the
\* chains of the model short; the code compares the pending count with it.
BLOCK_SIZE_THRESHOLD == 2

\* ------------------------------------------------------------ input sets
EventTypes == {"keydown", "keyup"}
Timestamps == {1000, 1050, 1100}
\* the events the capture layer delivers, [timestamp, eventType] with
\* Date.now() as the timestamp: the n-th event after a reset is a keydown
\* at 1000 or the keyup that follows it at 1050
EventAt(n) == IF n % 2 = 0 THEN <<1000, "keydown">> ELSE <<1050, "keyup">>
Documents == {"docA"}

\* "GENESIS", as a text
GENESIS == <<"GENESIS">>

\* ------------------------------------------------------------------ text
RECURSIVE JoinWith(_, _)
JoinWith(texts, sep) ==
    IF texts = <<>> THEN <<>>
    ELSE IF Len(texts) = 1 THEN texts[1]
    ELSE texts[1] \o sep \o JoinWith(Tail(texts), sep)

\* a timestamp that is not an integer, 1000.5, which a message can carry as
\* well as Date.now(); the numbers of the model being integers, it is written -1
Fractional == -1

\* JSON.stringify of a number
NumberText(t) == IF t = Fractional THEN "1000.5" ELSE ToString(t)

\* JSON.stringify of one [timestamp, eventType] array: [1000,"keydown"]
JSONStringifyEvent(ev) ==
    <<"[", NumberText(ev[1]), ",", "\"", ev[2], "\"", "]">>

\* JSON.stringify of the events array: no white space anywhere
JSONStringify(events) ==
    <<"[">> \o JoinWith([i \in 1..Len(events) |-> JSONStringifyEvent(events[i])],
                        <<",">>) \o <<"]">>

\* the lookahead (?=[\[\{"\d]) of pythonJsonStringify's two regular expressions
NumberTokens == {NumberText(t) : t \in Timestamps \cup {Fractional}}
LookaheadMatches(tok) == tok \in {"[", "{", "\""} \cup NumberTokens

\* text.replace(/<ch>(?=[\[\{"\d])/g, '<ch> ')
RECURSIVE ReplaceBeforeLookahead(_, _)
ReplaceBeforeLookahead(text, ch) ==
    IF text = <<>> THEN <<>>
    ELSE IF Head(text) = ch /\ Len(text) > 1 /\ LookaheadMatches(text[2])
         THEN <<ch, " ">> \o ReplaceBeforeLookahead(Tail(text), ch)
         ELSE <<Head(text)>> \o ReplaceBeforeLookahead(Tail(text), ch)

\* sortObjectKeys: an array is mapped element by element, a primitive is
\* returned as it is; the events hold no objects, so no key is reordered
sortObjectKeys(events) ==
    [i \in 1..Len(events) |-> <<events[i][1], events[i][2]>>]

pythonJsonStringify(events) ==
    ReplaceBeforeLookahead(ReplaceBeforeLookahead(JSONStringify(events), ","), ":")

\* crypto digest 'SHA-256' followed by bufferToHex: collision-free
SHA256Hex(text) == <<"sha256(">> \o text \o <<")">>

\* background.js computeBlockHash
computeBlockHash(prevHash, events) ==
    SHA256Hex(prevHash \o pythonJsonStringify(sortObjectKeys(events)))

\* lib/crypto.js computeBlockHash
computeBlockHashLib(prevHash, events) ==
    SHA256Hex(prevHash \o JSONStringify(events))

computeDocumentHash(content) == SHA256Hex(<<content>>)



\* ------------------------------------------------ JWS (background.js 123-154)
\* base64UrlEncode(JSON.stringify(x)): JSON.parse of the decoded segment gives
\* x back for the integers, strings and arrays of a payload, so the segment is
\* x under a constructor that Base64UrlDecodeJSON removes
base64UrlEncodeJSON(x) == [b64url |-> x]
Base64UrlDecodeJSON(seg) == seg.b64url

JWSHeader == [alg |-> "RS256", typ |-> "JWT"]

\* Math.floor(Date.now() / 1000) at the moment a payload is created
DateNowSeconds == 1762300800

createHumanSignPayload(subject, sessIdx, rep, documentHash, chain) ==
    [subject |-> subject, sessionIndex |-> sessIdx, rep |-> rep,
     document_hash |-> documentHash, chain |-> chain, iat |-> DateNowSeconds]

\* crypto.subtle.sign with RSASSA-PKCS1-v1_5: the signature of a signing
\* input under a key; only the holder of the key makes it
RSASign(key, signingInput) == [key |-> key, input |-> signingInput]

\* the token header.payload.signature, once importPrivateKey has succeeded:
\* the sequence of its three segments, which are joined by '.'
createJWS(payload, key) ==
    LET encodedHeader == base64UrlEncodeJSON(JWSHeader)
        encodedPayload == base64UrlEncodeJSON(payload)
        signingInput == <<encodedHeader, encodedPayload>>
    IN <<encodedHeader, encodedPayload, [b64url |-> RSASign(key, signingInput)]>>

\* -------------------------------------------------- the worker's state
VARIABLES
    blocks, currentEvents, previousHash, eventCount,  \* eventChain
    isRecording,        \* let isRecording
    sessionIndex,       \* sessionConfig.sessionIndex
    privateKey,         \* let privateKey: "none" or the kind of PEM loaded
    keyFile,            \* what keys/private.pem holds
    blockSealTimer,     \* let blockSealTimer: NoTimer or a timer id
    timers,             \* the setTimeout timers scheduled and not yet fired
    storage,            \* chrome.storage.local
    handlers,           \* the suspended handlers, a bag of their frames
    received,           \* the number of messages received so far
    loaded,             \* whether the storage.get callback of startup has run
    startupData,        \* what that storage.get read when the worker started
    orphan,             \* the EventChain object that callback replaced
    scheduledBefore,    \* the timers scheduled before the event that is now
                        \* the first pending one was accepted
    result,             \* lib/chain.js: what the last call that returned gave
    humansignFile,      \* verify.js: the token of the .humansign file
    documentFile,       \* verify.js: the document given with it, or "none"
    signedFile,         \* the token as its signer made it
    edits,              \* what was changed in the file since
    output,             \* verify.js: what the script reported
    events,             \* KeystrokeTracker: the buffer this.events
    sessionId,          \* KeystrokeTracker: this.sessionId, "none" for null
    batchSequence,      \* KeystrokeTracker: this.batchSequence
    isTracking,         \* KeystrokeTracker: this.isTracking
    flushTimeoutId,     \* KeystrokeTracker: NoTimer or the timer scheduled
    listening,          \* whether the tracker's key listeners are attached
    suspended,          \* the tracker's calls that await a response, a bag
    captured,           \* the number of key events captured so far
    sent                \* the batches given to chrome.runtime.sendMessage

chainVars == <<blocks, currentEvents, previousHash, eventCount>>
trackerVars == <<events, sessionId, batchSequence, isTracking, flushTimeoutId,
                 listening, suspended, captured, sent>>
outsideWorker == <<result, humansignFile, documentFile, signedFile, edits, output,
                   trackerVars>>
startup == <<loaded, startupData>>
vars == <<blocks, currentEvents, previousHash, eventCount, isRecording,
          sessionIndex, privateKey, keyFile, blockSealTimer, timers, storage,
          handlers, received, loaded, startupData, orphan, scheduledBefore,
          result,
          humansignFile, documentFile, signedFile, edits, output, events,
          sessionId, batchSequence, isTracking, flushTimeoutId, listening,
          suspended, captured, sent>>

NoTimer == 0
KeyFiles == {"pkcs8", "pkcs1", "missing"}

NoPayload == createHumanSignPayload("", 0, 0, <<>>, <<>>)
NoToken == <<>>
NoResponse == [success |-> FALSE, error |-> "none", eventCount |-> 0, blockCount |-> 0]

\* the frame of a handler: where it is suspended (pc), what follows its
\* sealCurrentBlock (ret), and its locals; old says that the EventChain object
\* the handler holds (the this of its sealBlock, the array getChain gave it) is
\* the one the storage.get callback of startup replaced; for a sealDocument also what the
\* chain was when it was called (atCall) and whether a RESET_SESSION was
\* handled since (resetSince), another sealDocument reset the chain since
\* (sealedSince) or the startup callback replaced the chain since
\* (loadedSince), which the handler itself does not hold
NewHandler(type, ret) ==
    [type |-> type, pc |-> "new", ret |-> ret, blockHash |-> <<>>,
     doc |-> "none", chain |-> <<>>, live |-> FALSE, payload |-> NoPayload,
     jws |-> NoToken, downloaded |-> FALSE, response |-> NoResponse,
     atCall |-> [blocks |-> <<>>, currentEvents |-> <<>>,
                 previousHash |-> GENESIS, eventCount |-> 0],
     resetSince |-> FALSE, sealedSince |-> FALSE, loadedSince |-> FALSE,
     old |-> FALSE]

InFlight == BagToSet(handlers)
CanStart == BagCardinality(handlers) < MaxHandlers
Suspend(hs, frame) == hs (+) SetToBag({frame})
Finish(hs, frame) == hs (-) SetToBag({frame})

\* EventChain.toJSON
toJSON(b, ce, ph, ec) ==
    [blocks |-> b, currentEvents |-> ce, previousHash |-> ph, eventCount |-> ec]

\* saveState: chrome.storage.local.set({eventChain, sessionConfig, isRecording});
\* the values are taken when set() is called
saveState(b, ce, ph, ec, si, rec) ==
    [saved |-> TRUE, eventChain |-> toJSON(b, ce, ph, ec),
     sessionIndex |-> si, isRecording |-> rec]

\* fromJSON that forgets the pending events
fromJSONWithoutPending(data) ==
    [blocks |-> data.blocks, currentEvents |-> <<>>,
     previousHash |-> IF data.previousHash = <<>> THEN GENESIS ELSE data.previousHash,
     eventCount |-> IF data.eventCount = 0 THEN 0 ELSE data.eventCount]

\* EventChain.fromJSON(data), for a data that has the four fields: x || d is
\* d when x is falsy; an array is never falsy, the empty string and 0 are.
\* The worker's EventChain.fromJSON is the same function
fromJSON(data) ==
    [blocks |-> data.blocks, currentEvents |-> data.currentEvents,
     previousHash |-> IF data.previousHash = <<>> THEN GENESIS ELSE data.previousHash,
     eventCount |-> IF data.eventCount = 0 THEN 0 ELSE data.eventCount]

\* nothing returned yet, nothing reported yet
NoResult == [op |-> "none", isNull |-> TRUE, value |-> <<>>]
NoOutput ==
    [ran |-> FALSE, exit |-> 0, crashed |-> FALSE, signature |-> "none",
     document |-> "none", chain |-> "none", kind |-> "none", index |-> 0,
     verdict |-> "none"]

\* EventChain constructor
NewChain ==
    /\ blocks = <<>>
    /\ currentEvents = <<>>
    /\ previousHash = GENESIS
    /\ eventCount = 0

\* new KeystrokeTracker(): the field initializers, nothing captured or sent
TrackerNotStarted ==
    /\ events = <<>>
    /\ sessionId = "none"
    /\ batchSequence = 0
    /\ isTracking = FALSE
    /\ flushTimeoutId = NoTimer
    /\ listening = FALSE
    /\ suspended = EmptyBag
    /\ captured = 0
    /\ sent = <<>>

\* no library call, no run of the script and no tracker
NothingOutsideWorker ==
    /\ TrackerNotStarted
    /\ result = NoResult
    /\ humansignFile = NoToken
    /\ documentFile = "none"
    /\ signedFile = NoToken
    /\ edits = <<>>
    /\ output = NoOutput

\* chrome.storage.local of a first run
NothingStored ==
    [saved |-> FALSE, eventChain |-> toJSON(<<>>, <<>>, GENESIS, 0),
     sessionIndex |-> 1, isRecording |-> FALSE]

\* chrome.storage.local when the worker starts: nothing, or what the saveState
\* of an earlier run of the worker left, here one sealed block and one event
\* pending
EarlierBlock ==
    [events |-> <<EventAt(0)>>, prev_hash |-> GENESIS,
     block_hash |-> computeBlockHash(GENESIS, <<EventAt(0)>>)]
StoredAtStartup ==
    {NothingStored,
     saveState(<<EarlierBlock>>, <<EventAt(1)>>, EarlierBlock.block_hash, 2, 1, TRUE)}

\* no EventChain object was replaced, or no handler holds the one that was
NoOrphan == [blocks |-> <<>>, currentEvents |-> <<>>, previousHash |-> GENESIS]

\* EventChain constructor and the module's lets, once the loadPrivateKey() of
\* startup has set privateKey from the key file, and with the storage.get of
\* startup called and not yet answered
Init ==
    /\ NewChain
    /\ NothingOutsideWorker
    /\ isRecording = FALSE
    /\ sessionIndex = 1
    /\ keyFile \in KeyFiles
    /\ privateKey = (IF keyFile = "missing" THEN "none" ELSE keyFile)
    /\ blockSealTimer = NoTimer
    /\ timers = {}
    /\ storage \in StoredAtStartup
    /\ handlers = EmptyBag
    /\ received = 0
    /\ loaded = FALSE
    /\ startupData = storage
    /\ orphan = NoOrphan
    /\ scheduledBefore = {}

\* ------------------------------------------------------------- variants
\* Faulty variants of the chain operations: each property below that holds
\* of the code stops holding under one of them.
\* addEvent without this.eventCount++
addEventWithoutCount(ev) ==
    [currentEvents |-> Append(currentEvents, ev), eventCount |-> eventCount]

\* sealBlock without this.previousHash = blockHash
sealBlockKeepingPreviousHash(this, blockHash) ==
    LET block == [events |-> this.currentEvents, prev_hash |-> this.previousHash,
                  block_hash |-> blockHash]
    IN [blocks |-> Append(this.blocks, block), previousHash |-> this.previousHash,
        currentEvents |-> <<>>]

\* sealBlock without this.currentEvents = []
sealBlockKeepingPending(this, blockHash) ==
    LET block == [events |-> this.currentEvents, prev_hash |-> this.previousHash,
                  block_hash |-> blockHash]
    IN [blocks |-> Append(this.blocks, block), previousHash |-> blockHash,
        currentEvents |-> this.currentEvents]

\* reset without this.previousHash = "GENESIS"
resetKeepingPreviousHash ==
    [blocks |-> <<>>, currentEvents |-> <<>>, previousHash |-> previousHash,
     eventCount |-> 0]

\* sealDocument without the check of chain.length
chainNeverEmpty(chain) == FALSE

\* EventChain.addEvent(ev[1], ev[2]) on the worker's chain
addEvent(ev) ==
    [currentEvents |-> Append(currentEvents, ev), eventCount |-> eventCount + 1]

\* EventChain.sealBlock after its await: the block, pushed, and the new
\* previousHash and currentEvents, from the fields of this as they are now
sealBlock(this, blockHash) ==
    LET block == [events |-> this.currentEvents, prev_hash |-> this.previousHash,
                  block_hash |-> blockHash]
    IN [blocks |-> Append(this.blocks, block), previousHash |-> blockHash,
        currentEvents |-> <<>>]

\* reset without this.eventCount = 0
resetKeepingEventCount ==
    [blocks |-> <<>>, currentEvents |-> <<>>, previousHash |-> GENESIS,
     eventCount |-> eventCount]

\* EventChain.reset
reset ==
    [blocks |-> <<>>, currentEvents |-> <<>>, previousHash |-> GENESIS,
     eventCount |-> 0]

\* sealDocument: if (chain.length === 0) throw
isEmptyChain(chain) == Len(chain) = 0

\* a timer id no scheduled timer and no handle held by the worker uses
FreshTimer ==
    CHOOSE t \in 1..MaxMessages :
        /\ t \notin timers \cup {blockSealTimer}
        /\ \A u \in 1..MaxMessages :
              u \notin timers \cup {blockSealTimer} => t <= u

\* loadPrivateKey: privateKey is set when the fetch of keys/private.pem is ok
loadPrivateKey == IF keyFile = "missing" THEN privateKey ELSE keyFile

\* reset() replaces this.blocks by a new array: a handler that holds the old
\* array (from getChain) keeps it, with the blocks it has now
Detach(frame) ==
    IF frame.live /\ ~frame.old
    THEN [frame EXCEPT !.chain = blocks, !.live = FALSE]
    ELSE frame

\* a RESET_SESSION is handled while the handler of the frame is suspended
NoteReset(frame) ==
    IF frame.ret = "sealDocument" THEN [frame EXCEPT !.resetSince = TRUE] ELSE frame

RECURSIVE NoteResets(_)
NoteResets(hs) ==
    IF hs = EmptyBag THEN EmptyBag
    ELSE LET f == CHOOSE x \in BagToSet(hs) : TRUE
         IN Suspend(NoteResets(Finish(hs, f)), NoteReset(f))

\* another sealDocument resets the chain while the handler of the frame is
\* suspended
NoteSeal(frame) ==
    IF frame.ret = "sealDocument" THEN [frame EXCEPT !.sealedSince = TRUE] ELSE frame

RECURSIVE NoteSeals(_)
NoteSeals(hs) ==
    IF hs = EmptyBag THEN EmptyBag
    ELSE LET f == CHOOSE x \in BagToSet(hs) : TRUE
         IN Suspend(NoteSeals(Finish(hs, f)), NoteSeal(f))

RECURSIVE DetachChains(_)
DetachChains(hs) ==
    IF hs = EmptyBag THEN EmptyBag
    ELSE LET f == CHOOSE x \in BagToSet(hs) : TRUE
         IN Suspend(DetachChains(Finish(hs, f)), Detach(f))

\* sealCurrentBlock up to its first await of a platform operation, called by
\* the handler with the given frame, out of the suspended handlers hs, when
\* the pending events are evs, eventCount is ec and isRecording is rec.
\* sealBlock returns null at once when nothing is pending, and saveState
\* follows; otherwise computeBlockHash has built its payload from previousHash
\* and evs and awaits the digest.
sealCurrentBlock(hs, frame, evs, ec, rec) ==
    /\ timers' = timers \ {blockSealTimer}
    /\ blockSealTimer' = NoTimer
    /\ IF evs = <<>>
       THEN /\ handlers' = Suspend(hs, [frame EXCEPT !.pc = "seal_save"])
            /\ storage' = saveState(blocks, evs, previousHash, ec, sessionIndex, rec)
       ELSE /\ handlers' = Suspend(hs,
                   [frame EXCEPT !.pc = "digest",
                                 !.blockHash = computeBlockHash(previousHash, evs)])
            /\ UNCHANGED storage

\* one more message arrives
Receive ==
    /\ received < MaxMessages
    /\ received' = received + 1

\* KEYSTROKE_EVENT while recording: handleKeystrokeEvent to its first await,
\* or to its end when the last thing it awaits is the storage write
RecvKeystroke(ev) ==
    /\ isRecording
    /\ Receive
    /\ LET evs == addEvent(ev).currentEvents
           ec == addEvent(ev).eventCount
       IN
       /\ currentEvents' = evs
       /\ eventCount' = ec
       /\ IF Len(evs) >= BLOCK_SIZE_THRESHOLD
          THEN /\ CanStart
               /\ sealCurrentBlock(handlers, NewHandler("KEYSTROKE_EVENT", "keystroke"),
                                   evs, ec, isRecording)
          ELSE /\ IF blockSealTimer = NoTimer
                  THEN /\ blockSealTimer' = FreshTimer
                       /\ timers' = timers \cup {FreshTimer}
                  ELSE UNCHANGED <<blockSealTimer, timers>>
               /\ storage' = saveState(blocks, evs, previousHash, ec,
                                       sessionIndex, isRecording)
               /\ UNCHANGED handlers
    /\ UNCHANGED <<blocks, previousHash, isRecording, sessionIndex, privateKey,
                   keyFile>>
    /\ scheduledBefore' = IF currentEvents = <<>> THEN timers
                          ELSE scheduledBefore \cap timers
    /\ UNCHANGED <<startup, orphan, outsideWorker>>

\* handleKeystrokeEvent without the return when isRecording is false
RecvKeystrokeWhileNotRecording(ev) ==
    /\ ~isRecording
    /\ Receive
    /\ currentEvents' = Append(currentEvents, ev)
    /\ eventCount' = eventCount + 1
    /\ UNCHANGED <<blocks, previousHash, isRecording, sessionIndex, privateKey,
                   keyFile, blockSealTimer, timers, storage, handlers>>
    /\ UNCHANGED <<startup, orphan, scheduledBefore, outsideWorker>>

\* KEYSTROKE_EVENT while not recording: ignored, the handler returns at once
RecvKeystrokeIgnored(ev) ==
    /\ ~isRecording
    /\ Receive
    /\ UNCHANGED <<chainVars, isRecording, sessionIndex, privateKey, keyFile,
                   blockSealTimer, timers, storage, handlers>>
    /\ UNCHANGED <<startup, orphan, scheduledBefore, outsideWorker>>

\* the setTimeout callback of handleKeystrokeEvent
TimerFire(t) ==
    /\ t \in timers
    /\ IF currentEvents # <<>>
       THEN /\ CanStart
            /\ timers' = (timers \ {t}) \ {blockSealTimer}
            /\ blockSealTimer' = NoTimer
            /\ handlers' = Suspend(handlers,
                   [NewHandler("TIMER", "timer") EXCEPT
                        !.pc = "digest",
                        !.blockHash = computeBlockHash(previousHash, currentEvents)])
       ELSE /\ timers' = timers \ {t}
            /\ blockSealTimer' = NoTimer
            /\ UNCHANGED handlers
    /\ UNCHANGED <<chainVars, isRecording, sessionIndex, privateKey, keyFile,
                   storage, received>>
    /\ UNCHANGED <<startup, orphan, scheduledBefore, outsideWorker>>

\* STOP_SESSION: stopSession to its first await
RecvStop ==
    /\ Receive
    /\ CanStart
    /\ isRecording' = FALSE
    /\ sealCurrentBlock(handlers, NewHandler("STOP_SESSION", "stop"),
                        currentEvents, eventCount, FALSE)
    /\ UNCHANGED <<chainVars, sessionIndex, privateKey, keyFile>>
    /\ UNCHANGED <<startup, orphan, scheduledBefore, outsideWorker>>

\* RESET_SESSION: eventChain.reset() and saveState
RecvReset ==
    /\ Receive
    /\ blocks' = reset.blocks
    /\ currentEvents' = reset.currentEvents
    /\ previousHash' = reset.previousHash
    /\ eventCount' = reset.eventCount
    /\ storage' = saveState(reset.blocks, reset.currentEvents, reset.previousHash,
                            reset.eventCount, sessionIndex, isRecording)
    /\ handlers' = NoteResets(DetachChains(handlers))
    /\ UNCHANGED <<isRecording, sessionIndex, privateKey, keyFile, blockSealTimer,
                   timers>>
    /\ UNCHANGED <<startup, orphan, scheduledBefore, outsideWorker>>

\* START_SESSION: startSession to its first await; the popup sends the subject only
RecvStart ==
    /\ Receive
    /\ CanStart
    /\ isRecording' = TRUE
    /\ storage' = [storage EXCEPT !.sessionIndex = sessionIndex, !.isRecording = TRUE]
    /\ handlers' = Suspend(handlers,
                       [NewHandler("START_SESSION", "none") EXCEPT !.pc = "start_tabs"])
    /\ UNCHANGED <<chainVars, sessionIndex, privateKey, keyFile, blockSealTimer,
                   timers>>
    /\ UNCHANGED <<startup, orphan, scheduledBefore, outsideWorker>>

\* startSession after chrome.tabs.query: the active tab takes START_RECORDING
StartTabOk(f) ==
    /\ f.pc = "start_tabs"
    /\ handlers' = Finish(handlers, f)
    /\ UNCHANGED <<chainVars, isRecording, sessionIndex, privateKey, keyFile,
                   blockSealTimer, timers, storage, received>>
    /\ UNCHANGED <<startup, orphan, scheduledBefore, outsideWorker>>

\* startSession: the tab is a blocked page, or the content script cannot be
\* injected: isRecording = false and chrome.storage.local.set({isRecording: false})
StartTabFails(f) ==
    /\ f.pc = "start_tabs"
    /\ isRecording' = FALSE
    /\ storage' = [storage EXCEPT !.isRecording = FALSE]
    /\ handlers' = Finish(handlers, f)
    /\ UNCHANGED <<chainVars, sessionIndex, privateKey, keyFile, blockSealTimer,
                   timers, received>>
    /\ UNCHANGED <<startup, orphan, scheduledBefore, outsideWorker>>

\* EventChain.sealBlock after the digest, then the saveState of sealCurrentBlock.
\* The block takes currentEvents and previousHash as they are now, and the
\* hash computed before the await.
\* When the chain was replaced during the await, this is the replaced object:
\* the block goes to it, and saveState writes the global eventChain.
ResumeDigest(f) ==
    /\ f.pc = "digest"
    /\ IF f.old
       THEN /\ orphan' = sealBlock(orphan, f.blockHash)
            /\ storage' = saveState(blocks, currentEvents, previousHash,
                                    eventCount, sessionIndex, isRecording)
            /\ UNCHANGED <<blocks, previousHash, currentEvents>>
       ELSE LET sealed == sealBlock([blocks |-> blocks,
                                     currentEvents |-> currentEvents,
                                     previousHash |-> previousHash], f.blockHash)
            IN /\ blocks' = sealed.blocks
               /\ previousHash' = sealed.previousHash
               /\ currentEvents' = sealed.currentEvents
               /\ storage' = saveState(sealed.blocks, sealed.currentEvents,
                                       sealed.previousHash, eventCount,
                                       sessionIndex, isRecording)
               /\ UNCHANGED orphan
    /\ handlers' = Suspend(Finish(handlers, f),
                           [f EXCEPT !.pc = "seal_save", !.old = FALSE])
    /\ UNCHANGED <<eventCount, isRecording, sessionIndex, privateKey, keyFile,
                   blockSealTimer, timers, received>>
    /\ UNCHANGED <<startup, scheduledBefore, outsideWorker>>

\* handleKeystrokeEvent after sealCurrentBlock: the saveState of line 398
ResumeKeystrokeSealed(f) ==
    /\ f.pc = "seal_save"
    /\ f.ret = "keystroke"
    /\ storage' = saveState(blocks, currentEvents, previousHash, eventCount,
                            sessionIndex, isRecording)
    /\ handlers' = Finish(handlers, f)
    /\ UNCHANGED <<chainVars, isRecording, sessionIndex, privateKey, keyFile,
                   blockSealTimer, timers, received>>
    /\ UNCHANGED <<startup, orphan, scheduledBefore, outsideWorker>>

\* the timer callback after sealCurrentBlock: blockSealTimer = null (line 394)
ResumeTimerSealed(f) ==
    /\ f.pc = "seal_save"
    /\ f.ret = "timer"
    /\ blockSealTimer' = NoTimer
    /\ handlers' = Finish(handlers, f)
    /\ UNCHANGED <<chainVars, isRecording, sessionIndex, privateKey, keyFile,
                   timers, storage, received>>
    /\ UNCHANGED <<startup, orphan, scheduledBefore, outsideWorker>>

\* ------------------------------------------------------------ sealDocument
\* the array a handler got from getChain(), as it is now
ChainOf(f) ==
    IF f.live THEN (IF f.old THEN orphan.blocks ELSE blocks) ELSE f.chain

RECURSIVE SumEvents(_)
\* chain.reduce((sum, block) => sum + block.events.length, 0)
SumEvents(chain) ==
    IF chain = <<>> THEN 0 ELSE Len(Head(chain).events) + SumEvents(Tail(chain))

\* the response of handleAsyncMessage's catch: {success: false, error}
ErrorResponse(msg) ==
    [success |-> FALSE, error |-> msg, eventCount |-> 0, blockCount |-> 0]

\* sealDocument throws: the handler is left with its response to send
Throw(f, msg) == [f EXCEPT !.pc = "respond", !.response = ErrorResponse(msg)]

\* stopSession after sealCurrentBlock: chrome.storage.local.set({isRecording})
\* and the STOP_RECORDING messages to the tabs; as the last step of
\* sealDocument it is followed by the response
\* {success: true, filename, eventCount, blockCount, documentHash}
ResumeStopSealed(f) ==
    /\ f.pc = "seal_save"
    /\ f.ret \in {"stop", "stop_sealed"}
    /\ storage' = [storage EXCEPT !.isRecording = isRecording]
    /\ handlers' = IF f.ret = "stop_sealed"
                     THEN Suspend(Finish(handlers, f),
                                  [f EXCEPT !.pc = "respond", !.response.success = TRUE])
                     ELSE Finish(handlers, f)
    /\ UNCHANGED <<chainVars, isRecording, sessionIndex, privateKey, keyFile,
                   blockSealTimer, timers, received>>
    /\ UNCHANGED <<startup, orphan, scheduledBefore, outsideWorker>>

\* sendResponse for a SEAL_DOCUMENT message
SendResponse(f) ==
    /\ f.pc = "respond"
    /\ handlers' = Finish(handlers, f)
    /\ UNCHANGED <<chainVars, isRecording, sessionIndex, privateKey, keyFile,
                   blockSealTimer, timers, storage, received>>
    /\ UNCHANGED <<startup, orphan, scheduledBefore, outsideWorker>>

\* SEAL_DOCUMENT: sealDocument to its first await
RecvSealDocument(doc) ==
    /\ Receive
    /\ CanStart
    /\ LET f == [NewHandler("SEAL_DOCUMENT", "sealDocument") EXCEPT
                    !.doc = doc,
                    !.atCall = toJSON(blocks, currentEvents, previousHash, eventCount)]
       IN
       IF privateKey = "none"
       THEN /\ handlers' = Suspend(handlers, [f EXCEPT !.pc = "load_key"])
            /\ UNCHANGED <<timers, blockSealTimer, storage>>
       ELSE sealCurrentBlock(handlers, f, currentEvents, eventCount, isRecording)
    /\ UNCHANGED <<chainVars, isRecording, sessionIndex, privateKey, keyFile>>
    /\ UNCHANGED <<startup, orphan, scheduledBefore, outsideWorker>>

\* sealDocument after its own loadPrivateKey()
ResumeLoadKey(f) ==
    /\ f.pc = "load_key"
    /\ privateKey' = loadPrivateKey
    /\ IF loadPrivateKey = "none"
       THEN /\ handlers' = Suspend(Finish(handlers, f),
                                   Throw(f, "Private key not found"))
            /\ UNCHANGED <<timers, blockSealTimer, storage>>
       ELSE sealCurrentBlock(Finish(handlers, f), f, currentEvents, eventCount,
                             isRecording)
    /\ UNCHANGED <<chainVars, isRecording, sessionIndex, keyFile, received>>
    /\ UNCHANGED <<startup, orphan, scheduledBefore, outsideWorker>>

\* sealDocument after sealCurrentBlock: getChain, the empty-chain check, and
\* computeDocumentHash to its digest
ResumeSealDocumentSealed(f) ==
    /\ f.pc = "seal_save"
    /\ f.ret = "sealDocument"
    /\ handlers' = Suspend(Finish(handlers, f),
           IF isEmptyChain(blocks)
           THEN Throw(f, "No keystroke events recorded")
           ELSE [f EXCEPT !.pc = "doc_hash", !.live = TRUE])
    /\ UNCHANGED <<chainVars, isRecording, sessionIndex, privateKey, keyFile,
                   blockSealTimer, timers, storage, received>>
    /\ UNCHANGED <<startup, orphan, scheduledBefore, outsideWorker>>

\* sealDocument after the document digest: the payload object, which holds the
\* chain array itself, and createJWS to its importKey. The chain field of the
\* frame's payload keeps the blocks the array has at this moment; ChainOf(f)
\* is the array as it is later.
ResumeDocHash(f) ==
    /\ f.pc = "doc_hash"
    /\ handlers' = Suspend(Finish(handlers, f),
           [f EXCEPT !.pc = "import_key",
                     !.payload = createHumanSignPayload(
                                     "user", sessionIndex, 1,
                                     computeDocumentHash(f.doc), ChainOf(f))])
    /\ UNCHANGED <<chainVars, isRecording, sessionIndex, privateKey, keyFile,
                   blockSealTimer, timers, storage, received>>
    /\ UNCHANGED <<startup, orphan, scheduledBefore, outsideWorker>>

\* createJWS after importPrivateKey: a key that is not PKCS8 is rejected;
\* otherwise the payload is serialized, with the chain array as it is now,
\* and given to crypto.subtle.sign
ResumeImportKey(f) ==
    /\ f.pc = "import_key"
    /\ handlers' = Suspend(Finish(handlers, f),
           IF privateKey # "pkcs8"
           THEN Throw(f, "Invalid private key format")
           ELSE [f EXCEPT !.pc = "sign", !.payload = NoPayload,
                          !.jws = createJWS([f.payload EXCEPT !.chain = ChainOf(f)],
                                            privateKey)])
    /\ UNCHANGED <<chainVars, isRecording, sessionIndex, privateKey, keyFile,
                   blockSealTimer, timers, storage, received>>
    /\ UNCHANGED <<startup, orphan, scheduledBefore, outsideWorker>>

\* sealDocument after the signature: the data URL is given to
\* chrome.downloads.download
ResumeSign(f) ==
    /\ f.pc = "sign"
    /\ handlers' = Suspend(Finish(handlers, f), [f EXCEPT !.pc = "download"])
    /\ UNCHANGED <<chainVars, isRecording, sessionIndex, privateKey, keyFile,
                   blockSealTimer, timers, storage, received>>
    /\ UNCHANGED <<startup, orphan, scheduledBefore, outsideWorker>>

\* sealDocument after the download started: the file holds the token; the
\* counts, eventChain.reset(), sessionIndex++ and the call of saveState
ResumeDownload(f) ==
    /\ f.pc = "download"
    /\ blocks' = reset.blocks
    /\ currentEvents' = reset.currentEvents
    /\ previousHash' = reset.previousHash
    /\ eventCount' = reset.eventCount
    /\ sessionIndex' = sessionIndex + 1
    /\ storage' = saveState(reset.blocks, reset.currentEvents, reset.previousHash,
                            reset.eventCount, sessionIndex + 1, isRecording)
    /\ handlers' = Suspend(NoteSeals(DetachChains(Finish(handlers, f))),
           [f EXCEPT
               !.pc = "reset_save", !.downloaded = TRUE,
               !.chain = ChainOf(f), !.live = FALSE,
               !.response = [success |-> FALSE, error |-> "none",
                             eventCount |-> SumEvents(ChainOf(f)),
                             blockCount |-> Len(ChainOf(f))]])
    /\ UNCHANGED <<isRecording, privateKey, keyFile, blockSealTimer, timers, received>>
    /\ UNCHANGED <<startup, orphan, scheduledBefore, outsideWorker>>

\* a sealDocument that resets the chain before it knows that the download
\* started
ResumeDownloadFailsAfterReset(f) ==
    /\ f.pc = "download"
    /\ blocks' = reset.blocks
    /\ currentEvents' = reset.currentEvents
    /\ previousHash' = reset.previousHash
    /\ eventCount' = reset.eventCount
    /\ handlers' = Suspend(DetachChains(Finish(handlers, f)),
                           [f EXCEPT !.pc = "respond",
                                     !.response = [success |-> FALSE,
                                                   error |-> "Download failed",
                                                   eventCount |-> 0, blockCount |-> 0]])
    /\ UNCHANGED <<isRecording, sessionIndex, privateKey, keyFile, blockSealTimer,
                   timers, storage, received>>
    /\ UNCHANGED <<startup, orphan, scheduledBefore, outsideWorker>>

\* chrome.downloads.download rejects: sealDocument throws
ResumeDownloadFails(f) ==
    /\ f.pc = "download"
    /\ handlers' = Suspend(Finish(handlers, f), Throw(f, "Download failed"))
    /\ UNCHANGED <<chainVars, isRecording, sessionIndex, privateKey, keyFile,
                   blockSealTimer, timers, storage, received>>
    /\ UNCHANGED <<startup, orphan, scheduledBefore, outsideWorker>>

\* sealDocument after the saveState of line 554: stopSession to its first await
ResumeResetSave(f) ==
    /\ f.pc = "reset_save"
    /\ isRecording' = FALSE
    /\ sealCurrentBlock(Finish(handlers, f), [f EXCEPT !.ret = "stop_sealed"],
                        currentEvents, eventCount, FALSE)
    /\ UNCHANGED <<chainVars, sessionIndex, privateKey, keyFile, received>>
    /\ UNCHANGED <<startup, orphan, scheduledBefore, outsideWorker>>

\* the handler holds the EventChain object: its sealBlock awaits the digest, or
\* it has the array getChain returned
HoldsChain(frame) == frame.pc = "digest" \/ frame.live

\* the startup callback replaces the chain while the handler of the frame is
\* suspended
NoteLoad(frame) ==
    IF frame.ret = "sealDocument" THEN [frame EXCEPT !.loadedSince = TRUE] ELSE frame

\* the eventChain the frame holds is replaced
Orphan(frame) ==
    IF HoldsChain(frame) THEN [NoteLoad(frame) EXCEPT !.old = TRUE]
    ELSE NoteLoad(frame)

RECURSIVE OrphanChains(_)
OrphanChains(hs) ==
    IF hs = EmptyBag THEN EmptyBag
    ELSE LET f == CHOOSE x \in BagToSet(hs) : TRUE
         IN Suspend(OrphanChains(Finish(hs, f)), Orphan(f))

\* The callback of the chrome.storage.local.get of startup: sessionConfig and
\* eventChain are replaced by what was stored when the worker started, if
\* anything was; isRecording is switched off and that is written.
StorageLoaded ==
    /\ ~loaded
    /\ loaded' = TRUE
    /\ startupData' = NothingStored
    /\ IF startupData.saved
       THEN LET chain == fromJSON(startupData.eventChain)
            IN /\ blocks' = chain.blocks
               /\ currentEvents' = chain.currentEvents
               /\ previousHash' = chain.previousHash
               /\ eventCount' = chain.eventCount
               /\ sessionIndex' = startupData.sessionIndex
               /\ handlers' = OrphanChains(handlers)
               /\ orphan' = IF \E f \in InFlight : HoldsChain(f)
                            THEN [blocks |-> blocks,
                                  currentEvents |-> currentEvents,
                                  previousHash |-> previousHash]
                            ELSE NoOrphan
               /\ scheduledBefore' = {}
       ELSE UNCHANGED <<chainVars, sessionIndex, handlers, orphan, scheduledBefore>>
    /\ isRecording' = FALSE
    /\ storage' = [storage EXCEPT !.isRecording = FALSE]
    /\ UNCHANGED <<privateKey, keyFile, blockSealTimer, timers, received>>
    /\ UNCHANGED outsideWorker

Next ==
    \/ StorageLoaded
    \/ RecvKeystrokeIgnored(EventAt(eventCount))
    \/ RecvKeystroke(EventAt(eventCount))
    \/ \E t \in 1..MaxMessages : TimerFire(t)
    \/ RecvStart
    \/ RecvStop
    \/ RecvReset
    \/ \E doc \in Documents : RecvSealDocument(doc)
    \/ \E f \in InFlight : StartTabOk(f)
    \/ \E f \in InFlight : StartTabFails(f)
    \/ \E f \in InFlight : ResumeDigest(f)
    \/ \E f \in InFlight : ResumeKeystrokeSealed(f)
    \/ \E f \in InFlight : ResumeTimerSealed(f)
    \/ \E f \in InFlight : ResumeStopSealed(f)
    \/ \E f \in InFlight : SendResponse(f)
    \/ \E f \in InFlight : ResumeLoadKey(f)
    \/ \E f \in InFlight : ResumeSealDocumentSealed(f)
    \/ \E f \in InFlight : ResumeDocHash(f)
    \/ \E f \in InFlight : ResumeImportKey(f)
    \/ \E f \in InFlight : ResumeSign(f)
    \/ \E f \in InFlight : ResumeDownload(f)
    \/ \E f \in InFlight : ResumeDownloadFails(f)
    \/ \E f \in InFlight : ResumeResetSave(f)

Spec == Init /\ [][Next]_vars

\* ------------------------------------------- lib/chain.js: EventChain
\* calls a program makes on one library EventChain in one run
MaxCalls == 5

\* the worker is not running while the library chain or the script is used
WorkerNotRunning ==
    /\ isRecording = FALSE
    /\ sessionIndex = 1
    /\ keyFile = "missing"
    /\ privateKey = "none"
    /\ blockSealTimer = NoTimer
    /\ timers = {}
    /\ storage = NothingStored
    /\ loaded = TRUE
    /\ startupData = NothingStored
    /\ orphan = NoOrphan
    /\ scheduledBefore = {}

workerOnly == <<isRecording, sessionIndex, privateKey, keyFile, blockSealTimer,
                timers, storage, loaded, startupData, orphan, scheduledBefore>>
verifyVars == <<humansignFile, documentFile, signedFile, edits, output>>

InitLib ==
    /\ NewChain
    /\ WorkerNotRunning
    /\ NothingOutsideWorker
    /\ handlers = EmptyBag
    /\ received = 0

\* one more call of a method of the chain
Call ==
    /\ received < MaxCalls
    /\ received' = received + 1

\* sealBlock without its first line
SomethingAlwaysPending == FALSE

\* sealBlock: if (this.currentEvents.length === 0) return null
NothingPending == Len(currentEvents) = 0

ReturnedNull(op) == [op |-> op, isNull |-> TRUE, value |-> <<>>]
Returned(op, value) == [op |-> op, isNull |-> FALSE, value |-> value]

\* addEvent(timestamp, eventType)
LibAddEvent(ev) ==
    /\ Call
    /\ currentEvents' = Append(currentEvents, ev)
    /\ eventCount' = eventCount + 1
    /\ UNCHANGED <<blocks, previousHash, handlers, result, workerOnly, verifyVars, trackerVars>>

\* sealBlock() to its await of computeBlockHash, or to its return of null
LibSealBlock ==
    /\ Call
    /\ IF NothingPending
       THEN /\ result' = ReturnedNull("sealBlock")
            /\ UNCHANGED handlers
       ELSE /\ CanStart
            /\ handlers' = Suspend(handlers,
                   [NewHandler("sealBlock", "sealBlock") EXCEPT
                        !.pc = "digest",
                        !.blockHash = computeBlockHashLib(previousHash, currentEvents)])
            /\ UNCHANGED result
    /\ UNCHANGED <<chainVars, workerOnly, verifyVars, trackerVars>>

\* finalize that returns the blocks without sealing
finalizeWithoutSeal(f) == blocks

\* finalize() once its sealBlock() has pushed the block: return this.blocks
finalize(f) ==
    Append(blocks, [events |-> currentEvents, prev_hash |-> previousHash,
                    block_hash |-> f.blockHash])

\* finalize() to the await inside its sealBlock(), or to its return of
\* this.blocks when sealBlock returned null
LibFinalize ==
    /\ Call
    /\ IF NothingPending
       THEN /\ result' = Returned("finalize", blocks)
            /\ UNCHANGED handlers
       ELSE /\ CanStart
            /\ handlers' = Suspend(handlers,
                   [NewHandler("finalize", "finalize") EXCEPT
                        !.pc = "digest",
                        !.blockHash = computeBlockHashLib(previousHash, currentEvents)])
            /\ UNCHANGED result
    /\ UNCHANGED <<chainVars, workerOnly, verifyVars, trackerVars>>

\* sealBlock() after the digest: the block is built from the fields as they
\* are now, pushed and returned; finalize() then returns this.blocks
LibSealBlockResume(f) ==
    /\ f.pc = "digest"
    /\ LET block == [events |-> currentEvents, prev_hash |-> previousHash,
                     block_hash |-> f.blockHash]
       IN /\ blocks' = Append(blocks, block)
          /\ previousHash' = f.blockHash
          /\ currentEvents' = <<>>
          /\ result' = IF f.ret = "finalize"
                         THEN Returned("finalize", finalize(f))
                         ELSE Returned("sealBlock", <<block>>)
    /\ handlers' = Finish(handlers, f)
    /\ UNCHANGED <<eventCount, received, workerOnly, verifyVars, trackerVars>>

\* reset()
LibReset ==
    /\ Call
    /\ blocks' = <<>>
    /\ currentEvents' = <<>>
    /\ previousHash' = GENESIS
    /\ eventCount' = 0
    /\ UNCHANGED <<handlers, result, workerOnly, verifyVars, trackerVars>>

\* toJSON(): the snapshot is returned
LibToJSON ==
    /\ Call
    /\ result' = Returned("toJSON",
                          <<toJSON(blocks, currentEvents, previousHash, eventCount)>>)
    /\ UNCHANGED <<chainVars, handlers, workerOnly, verifyVars, trackerVars>>

\* chain = EventChain.fromJSON(snapshot) with the snapshot that toJSON gave
\* last, when no call on the chain it replaces is suspended
LibFromJSON ==
    /\ Call
    /\ result.op = "toJSON"
    /\ handlers = EmptyBag
    /\ LET chain == fromJSON(result.value[1])
       IN /\ blocks' = chain.blocks
          /\ currentEvents' = chain.currentEvents
          /\ previousHash' = chain.previousHash
          /\ eventCount' = chain.eventCount
    /\ result' = Returned("fromJSON", result.value)
    /\ UNCHANGED <<handlers, workerOnly, verifyVars, trackerVars>>

\* lib/crypto.js importPrivateKey: crypto.subtle.importKey('pkcs8', ...) is
\* tried on the decoded PEM; when it rejects, the bytes are wrapped by
\* wrapPKCS1inPKCS8 and imported again, which a PKCS#1 key passes
importPrivateKeyLib(pem) ==
    IF pem \in {"pkcs8", "pkcs1"} THEN [ok |-> TRUE, key |-> pem]
    ELSE [ok |-> FALSE, key |-> "none"]

\* lib/jws.js createJWS(payload, privateKeyPem), for a payload made of the
\* blocks of the chain that nothing changes during the call: the token, or the
\* rejection of importPrivateKey
LibCreateJWS(pem) ==
    /\ Call
    /\ LET imported == importPrivateKeyLib(pem)
           payload == createHumanSignPayload("user", 1, 1,
                                             computeDocumentHash("docA"), blocks)
       IN result' = IF imported.ok
                    THEN Returned("createJWS", createJWS(payload, imported.key))
                    ELSE ReturnedNull("createJWS")
    /\ UNCHANGED <<chainVars, handlers, workerOnly, verifyVars, trackerVars>>

NextLib ==
    \/ \E pem \in {"pkcs8", "pkcs1", "garbage"} : LibCreateJWS(pem)
    \/ LibAddEvent(EventAt(eventCount))
    \/ LibSealBlock
    \/ LibFinalize
    \/ LibReset
    \/ LibToJSON
    \/ LibFromJSON
    \/ \E f \in InFlight : LibSealBlockResume(f)

SpecLib == InitLib /\ [][NextLib]_vars

\* ------------------------------------------- the worker's chain by itself
\* The EventChain of background.js with its computeBlockHash, called with
\* every kind of timestamp and each call run to its end before the next.
MaxAdded == 3

InitHash ==
    /\ NewChain
    /\ WorkerNotRunning
    /\ NothingOutsideWorker
    /\ handlers = EmptyBag
    /\ received = 0

\* eventChain.addEvent(timestamp, eventType)
HashAddEvent(timestamp, eventType) ==
    /\ eventCount < MaxAdded
    /\ currentEvents' = addEvent(<<timestamp, eventType>>).currentEvents
    /\ eventCount' = addEvent(<<timestamp, eventType>>).eventCount
    /\ UNCHANGED <<blocks, previousHash, handlers, received, result, workerOnly,
                   verifyVars, trackerVars>>

\* await eventChain.sealBlock(), nothing else running: null when nothing is
\* pending, otherwise the block hashed by computeBlockHash, pushed and returned
HashSealBlock ==
    /\ IF currentEvents = <<>>
       THEN /\ result' = ReturnedNull("sealBlock")
            /\ UNCHANGED <<blocks, previousHash, currentEvents>>
       ELSE LET sealed == sealBlock([blocks |-> blocks,
                                     currentEvents |-> currentEvents,
                                     previousHash |-> previousHash],
                                    computeBlockHash(previousHash, currentEvents))
            IN /\ blocks' = sealed.blocks
               /\ previousHash' = sealed.previousHash
               /\ currentEvents' = sealed.currentEvents
               /\ result' = Returned("sealBlock", <<sealed.blocks[Len(sealed.blocks)]>>)
    /\ UNCHANGED <<eventCount, handlers, received, workerOnly, verifyVars, trackerVars>>

NextHash ==
    \/ \E timestamp \in {1000, 1050, Fractional}, eventType \in EventTypes :
          HashAddEvent(timestamp, eventType)
    \/ HashSealBlock

SpecHash == InitHash /\ [][NextHash]_vars

\* ------------------------------------------- the content script's tracker
\* KeystrokeTracker: key events are buffered and sent to the background
\* worker in batches. BATCH_SIZE is 100 and MIN_FLUSH_SIZE 10 in the code,
\* scaled down here; the code compares the length of the buffer with them.
BATCH_SIZE == 3
MIN_FLUSH_SIZE == 2

MaxCaptured == 4
MaxSuspended == 2

\* what the callback of chrome.runtime.sendMessage gets: a response with
\* success true or false, or none
Responses == {"success", "failure", "none"}

notTracker == <<chainVars, handlers, received, workerOnly, result, verifyVars>>

\* flush() on the buffer evs, up to its await: nothing happens below
\* MIN_FLUSH_SIZE or without a session; otherwise the first BATCH_SIZE events
\* leave the buffer and are given to sendMessage with the next sequence
\* number. When chrome.runtime.sendMessage throws, the promise rejects and the
\* catch block puts the batch back in front of the buffer.
flush(evs, thrown) ==
    IF Len(evs) < MIN_FLUSH_SIZE \/ sessionId = "none"
    THEN [events |-> evs, batchSequence |-> batchSequence,
          eventsToSend |-> <<>>, awaits |-> FALSE]
    ELSE LET last == IF Len(evs) < BATCH_SIZE THEN Len(evs) ELSE BATCH_SIZE
             eventsToSend == SubSeq(evs, 1, last)
             rest == SubSeq(evs, last + 1, Len(evs))
         IN [events |-> IF thrown THEN eventsToSend \o rest ELSE rest,
             batchSequence |-> batchSequence + 1,
             eventsToSend |-> eventsToSend, awaits |-> ~thrown]

\* the frame of a suspended call of the tracker: a flush() that awaits the
\* response to its batch, called by stop() or not, or a stop() that awaits
\* the response to END_SESSION
Frame(pc, caller, eventsToSend) ==
    [pc |-> pc, caller |-> caller, eventsToSend |-> eventsToSend]

\* a call of flush() made by caller, with the suspended calls sus: the buffer
\* and the sequence number it leaves, the batch it sent, and what is suspended
\* next: the flush at its await, or else the stop() that called it, which
\* goes on to send END_SESSION
CallFlush(f, caller, sus) ==
    /\ (f.awaits \/ caller = "stop") => BagCardinality(sus) < MaxSuspended
    /\ events' = f.events
    /\ batchSequence' = f.batchSequence
    /\ sent' = IF f.awaits THEN Append(sent, f.eventsToSend) ELSE sent
    /\ suspended' = IF f.awaits
                    THEN sus (+) SetToBag({Frame("flush", caller, f.eventsToSend)})
                    ELSE IF caller = "stop"
                    THEN sus (+) SetToBag({Frame("end", caller, <<>>)})
                    ELSE sus

\* start(): START_SESSION is answered with success and a session, or not
TrackerStart(response) ==
    /\ ~isTracking
    /\ IF response = "success"
       THEN /\ sessionId' = "session"
            /\ isTracking' = TRUE
            /\ listening' = TRUE
       ELSE UNCHANGED <<sessionId, isTracking, listening>>
    /\ UNCHANGED <<events, batchSequence, flushTimeoutId, suspended, captured, sent>>
    /\ UNCHANGED notTracker

\* handleKeyDown and handleKeyUp: the event is pushed, then scheduleFlush
\* flushes a full buffer at once, or sets the flush timer if none is set
HandleKey(eventType, thrown) ==
    /\ listening
    /\ isTracking
    /\ captured < MaxCaptured
    /\ captured' = captured + 1
    /\ LET pushed == Append(events, [event_type |-> eventType,
                                     client_timestamp |-> captured + 1])
       IN IF Len(pushed) >= BATCH_SIZE
          THEN /\ CallFlush(flush(pushed, thrown), "void", suspended)
               /\ UNCHANGED flushTimeoutId
          ELSE /\ events' = pushed
               /\ flushTimeoutId' = 1
               /\ UNCHANGED <<batchSequence, suspended, sent>>
    /\ UNCHANGED <<sessionId, isTracking, listening>>
    /\ UNCHANGED notTracker

\* the callback of the flush timer: void this.flush(); flushTimeoutId = null
FlushTimeout(thrown) ==
    /\ flushTimeoutId # NoTimer
    /\ CallFlush(flush(events, thrown), "void", suspended)
    /\ flushTimeoutId' = NoTimer
    /\ UNCHANGED <<sessionId, isTracking, listening, captured>>
    /\ UNCHANGED notTracker

\* stop() up to its first await of a response: the listeners are detached and
\* flush() is awaited
TrackerStop(thrown) ==
    /\ isTracking
    /\ sessionId # "none"
    /\ listening' = FALSE
    /\ CallFlush(flush(events, thrown), "stop", suspended)
    /\ UNCHANGED <<sessionId, isTracking, flushTimeoutId, captured>>
    /\ UNCHANGED notTracker

\* the response to a KEYSTROKE_BATCH arrives: sendMessage resolves with it, or
\* with {success: false} when there is none, and flush() returns; a stop()
\* that awaited it sends END_SESSION
FlushResponse(f, response) ==
    /\ f.pc = "flush"
    /\ suspended' = IF f.caller = "stop"
                    THEN (suspended (-) SetToBag({f}))
                             (+) SetToBag({Frame("end", "stop", <<>>)})
                    ELSE suspended (-) SetToBag({f})
    /\ UNCHANGED <<events, sessionId, batchSequence, isTracking, flushTimeoutId,
                   listening, captured, sent>>
    /\ UNCHANGED notTracker

\* stop() after END_SESSION was answered or not: reset()
TrackerStopEnded(f) ==
    /\ f.pc = "end"
    /\ events' = <<>>
    /\ sessionId' = "none"
    /\ batchSequence' = 0
    /\ isTracking' = FALSE
    /\ flushTimeoutId' = NoTimer
    /\ suspended' = suspended (-) SetToBag({f})
    /\ UNCHANGED <<listening, captured, sent>>
    /\ UNCHANGED notTracker

InitTracker ==
    /\ NewChain
    /\ WorkerNotRunning
    /\ NothingOutsideWorker
    /\ handlers = EmptyBag
    /\ received = 0

NextTracker ==
    \/ \E response \in Responses : TrackerStart(response)
    \/ \E eventType \in EventTypes, thrown \in BOOLEAN : HandleKey(eventType, thrown)
    \/ \E thrown \in BOOLEAN : FlushTimeout(thrown)
    \/ \E thrown \in BOOLEAN : TrackerStop(thrown)
    \/ \E f \in BagToSet(suspended), response \in Responses : FlushResponse(f, response)
    \/ \E f \in BagToSet(suspended) : TrackerStopEnded(f)

SpecTracker == InitTracker /\ [][NextTracker]_vars

\* ------------------------------------------------------------- verify.js
\* the public.pem beside the script, and the private key it belongs to
PublicKey == "public.pem"
KeyPair(publicKey, key) == publicKey = "public.pem" /\ key = "pkcs8"

\* verify.verify(publicKey, signatureBuffer) after
\* verify.update(header64 + '.' + payload64)
RSAVerify(publicKey, signingInput, signature) ==
    /\ KeyPair(publicKey, signature.key)
    /\ signature.input = signingInput

\* the statistics: lastEvent[0] throws a TypeError when the first block has
\* events and the last block has none
StatisticsThrow(chain) ==
    /\ Len(chain) > 0
    /\ Len(chain[1].events) > 0
    /\ Len(chain[Len(chain)].events) = 0

\* the script's hash of a block of the payload: sha256 of prev_hash and
\* JSON.stringify(block.events)
computedHash(block) == SHA256Hex(block.prev_hash \o JSONStringify(block.events))

\* the loop over payload.chain from block i on (i from 1 here, from 0 in the
\* script, which is the index reported): the hash of prev_hash and
\* JSON.stringify(events) first, the link to the block before second, and a
\* break at the first failure
RECURSIVE VerifyBlocks(_, _)
VerifyBlocks(chain, i) ==
    IF i > Len(chain)
    THEN [blockValid |-> TRUE, kind |-> "none", index |-> 0]
    ELSE LET block == chain[i]
         IN IF computedHash(block) # block.block_hash
            THEN [blockValid |-> FALSE, kind |-> "hash mismatch", index |-> i - 1]
            ELSE IF i > 1 /\ block.prev_hash # chain[i - 1].block_hash
            THEN [blockValid |-> FALSE, kind |-> "prev_hash", index |-> i - 1]
            ELSE VerifyBlocks(chain, i + 1)

\* a verdict that looks at the signature only
VerdictOfSignature(isValid, blockValid) ==
    IF isValid THEN "PASSED" ELSE "FAILED"

\* if (isValid && blockValid) VERIFICATION PASSED else VERIFICATION FAILED
Verdict(isValid, blockValid) ==
    IF isValid /\ blockValid THEN "PASSED" ELSE "FAILED"

\* sha256 of the document file against payload.document_hash
DocumentCheck(document, payload) ==
    IF document = "none" THEN "none"
    ELSE IF computeDocumentHash(document) = payload.document_hash THEN "MATCH"
    ELSE "MISMATCH"

\* a split that refuses short files only
MalformedWhenShort(file) == Len(file) < 3

\* parts.length !== 3, for parts = jws.split('.')
Malformed(file) == Len(file) # 3

\* node verify.js <file> [document]: what the script reports for a token
\* given as the sequence of its '.'-separated segments
VerifyScript(file, document) ==
    IF Malformed(file)
    THEN [NoOutput EXCEPT !.ran = TRUE, !.exit = 1]
    ELSE
    LET payload == Base64UrlDecodeJSON(file[2])
        isValid == RSAVerify(PublicKey, <<file[1], file[2]>>,
                             Base64UrlDecodeJSON(file[3]))
        loop == VerifyBlocks(payload.chain, 1)
    IN IF StatisticsThrow(payload.chain)
       THEN [NoOutput EXCEPT !.ran = TRUE, !.exit = 1, !.crashed = TRUE]
       ELSE IF ~isValid
       THEN [NoOutput EXCEPT !.ran = TRUE, !.exit = 1, !.signature = "INVALID"]
       ELSE [ran |-> TRUE, exit |-> 0, crashed |-> FALSE, signature |-> "VALID",
             document |-> DocumentCheck(document, payload),
             chain |-> IF loop.blockValid THEN "VALID" ELSE "INVALID",
             kind |-> loop.kind, index |-> loop.index,
             verdict |-> Verdict(isValid, loop.blockValid)]

\* ----------------------------------------- the tokens given to verify.js
\* changes made to one token before it is verified
MaxEdits == 2

\* who made the chain: lib/chain.js with lib/crypto.js, background.js, or a
\* holder of the key who puts blocks sealed on separate chains one after the
\* other ("unlinked")
Codecs == {"lib", "background", "unlinked"}
BlockHashBy(codec, prevHash, evs) ==
    IF codec = "background" THEN computeBlockHash(prevHash, evs)
    ELSE computeBlockHashLib(prevHash, evs)

\* the blocks that sealing the given batches of events one after the other,
\* each seal awaited, appends to a chain whose previousHash is prevHash
RECURSIVE SealAll(_, _, _)
SealAll(codec, batches, prevHash) ==
    IF batches = <<>> THEN <<>>
    ELSE LET blockHash == BlockHashBy(codec, prevHash, Head(batches))
         IN <<[events |-> Head(batches), prev_hash |-> prevHash,
               block_hash |-> blockHash]>>
            \o SealAll(codec, Tail(batches),
                       IF codec = "unlinked" THEN GENESIS ELSE blockHash)

BatchSequences ==
    { <<>>,
      <<<<EventAt(0)>>, <<>>>>,
      <<<<EventAt(0)>>>>,
      <<<<EventAt(0), EventAt(1)>>>>,
      <<<<EventAt(0)>>, <<EventAt(1), EventAt(0)>>>>,
      <<<<EventAt(0), EventAt(1)>>, <<EventAt(0)>>>> }
SignerKeys == {"pkcs8", "attacker"}
DocumentFiles == {"none", "docA", "docB"}

SignedToken(codec, batches, key) ==
    createJWS(createHumanSignPayload("user", 1, 1, computeDocumentHash("docA"),
                                     SealAll(codec, batches, GENESIS)), key)

PayloadOf(file) == Base64UrlDecodeJSON(file[2])
ChainIn(file) == PayloadOf(file).chain

\* the file with another chain in its payload and the signature it had
WithChain(file, chain) ==
    <<file[1], base64UrlEncodeJSON([PayloadOf(file) EXCEPT !.chain = chain]), file[3]>>

InitVerify ==
    /\ NewChain
    /\ WorkerNotRunning
    /\ TrackerNotStarted
    /\ handlers = EmptyBag
    /\ received = 0
    /\ result = NoResult
    /\ \E codec \in Codecs, batches \in BatchSequences, key \in SignerKeys :
          /\ signedFile = SignedToken(codec, batches, key)
          /\ humansignFile = signedFile
    /\ documentFile \in DocumentFiles
    /\ edits = <<>>
    /\ output = NoOutput

\* one more change of the file, which has not been verified yet
Edit(kind, file) ==
    /\ output = NoOutput
    /\ Len(humansignFile) = 3
    /\ Len(edits) < MaxEdits
    /\ edits' = Append(edits, kind)
    /\ humansignFile' = file
    /\ UNCHANGED <<chainVars, workerOnly, handlers, received, result,
                   documentFile, signedFile, output, trackerVars>>

FieldEdits == {"timestamp", "type", "block_hash", "prev_hash"}

EditTimestamp(i, j, t) ==
    /\ i \in 1..Len(ChainIn(humansignFile))
    /\ j \in 1..Len(ChainIn(humansignFile)[i].events)
    /\ t # ChainIn(humansignFile)[i].events[j][1]
    /\ Edit("timestamp",
            WithChain(humansignFile,
                      [ChainIn(humansignFile) EXCEPT ![i].events[j][1] = t]))

EditType(i, j, type) ==
    /\ i \in 1..Len(ChainIn(humansignFile))
    /\ j \in 1..Len(ChainIn(humansignFile)[i].events)
    /\ type # ChainIn(humansignFile)[i].events[j][2]
    /\ Edit("type",
            WithChain(humansignFile,
                      [ChainIn(humansignFile) EXCEPT ![i].events[j][2] = type]))

\* the values a hash field is changed to: a wrong string, "GENESIS", or the
\* hash of a block of the chain
HashValues(chain) ==
    {<<"wrong">>, GENESIS} \cup {chain[k].block_hash : k \in 1..Len(chain)}

EditBlockHash(i, h) ==
    /\ i \in 1..Len(ChainIn(humansignFile))
    /\ h \in HashValues(ChainIn(humansignFile))
    /\ h # ChainIn(humansignFile)[i].block_hash
    /\ Edit("block_hash",
            WithChain(humansignFile,
                      [ChainIn(humansignFile) EXCEPT ![i].block_hash = h]))

EditPrevHash(i, h) ==
    /\ i \in 1..Len(ChainIn(humansignFile))
    /\ h \in HashValues(ChainIn(humansignFile))
    /\ h # ChainIn(humansignFile)[i].prev_hash
    /\ Edit("prev_hash",
            WithChain(humansignFile,
                      [ChainIn(humansignFile) EXCEPT ![i].prev_hash = h]))

\* block i gets the hash the script will compute for it
Rehash(i) ==
    /\ i \in 1..Len(ChainIn(humansignFile))
    /\ LET block == ChainIn(humansignFile)[i]
           h == computeBlockHashLib(block.prev_hash, block.events)
       IN /\ h # block.block_hash
          /\ Edit("rehash",
                  WithChain(humansignFile,
                            [ChainIn(humansignFile) EXCEPT ![i].block_hash = h]))

\* the first block of a chain of several is taken out
DropFirstBlock ==
    /\ Len(ChainIn(humansignFile)) > 1
    /\ Edit("drop", WithChain(humansignFile, Tail(ChainIn(humansignFile))))

\* the header segment is replaced by the encoding of another header
Headers == {JWSHeader, [alg |-> "none", typ |-> "JWT"]}
EditHeader(header) ==
    /\ header \in Headers
    /\ header # Base64UrlDecodeJSON(humansignFile[1])
    /\ Edit("header",
            <<base64UrlEncodeJSON(header), humansignFile[2], humansignFile[3]>>)

\* a byte of the signature segment is changed: what is left is the signature
\* of no key
EditSignature ==
    /\ Len(humansignFile) = 3
    /\ Base64UrlDecodeJSON(humansignFile[3]).key # "none"
    /\ Edit("signature",
            <<humansignFile[1], humansignFile[2],
              [b64url |-> [Base64UrlDecodeJSON(humansignFile[3]) EXCEPT !.key = "none"]]>>)

\* the file loses its last segment, or gets one more
ChangeSegments ==
    /\ Len(humansignFile) = 3
    /\ \E file \in {SubSeq(humansignFile, 1, 2),
                     Append(humansignFile, humansignFile[3])} :
          Edit("segments", file)

\* the holder of a key signs the payload as it is now: the holder of the
\* extension's key ("resign") or of another key ("forge")
Resign(key) ==
    /\ humansignFile # createJWS(PayloadOf(humansignFile), key)
    /\ Edit(IF key = "pkcs8" THEN "resign" ELSE "forge",
            createJWS(PayloadOf(humansignFile), key))

\* node verify.js humansignFile [documentFile]
RunVerify ==
    /\ output = NoOutput
    /\ output' = VerifyScript(humansignFile, documentFile)
    /\ UNCHANGED <<chainVars, workerOnly, handlers, received, result,
                   humansignFile, documentFile, signedFile, edits, trackerVars>>

NextVerify ==
    \/ \E i \in 1..Len(ChainIn(humansignFile)) :
          \E j \in 1..Len(ChainIn(humansignFile)[i].events), t \in Timestamps :
              EditTimestamp(i, j, t)
    \/ \E i \in 1..Len(ChainIn(humansignFile)) :
          \E j \in 1..Len(ChainIn(humansignFile)[i].events), type \in EventTypes :
              EditType(i, j, type)
    \/ \E i \in 1..Len(ChainIn(humansignFile)),
          h \in HashValues(ChainIn(humansignFile)) : EditBlockHash(i, h)
    \/ \E i \in 1..Len(ChainIn(humansignFile)),
          h \in HashValues(ChainIn(humansignFile)) : EditPrevHash(i, h)
    \/ \E i \in 1..Len(ChainIn(humansignFile)) : Rehash(i)
    \/ DropFirstBlock
    \/ \E header \in Headers : EditHeader(header)
    \/ EditSignature
    \/ ChangeSegments
    \/ \E key \in SignerKeys : Resign(key)
    \/ RunVerify

SpecVerify == InitVerify /\ [][NextVerify]_vars

\* ============================================================ properties
\* C1: in every reachable state of the worker's chain, every block after the
\* first has prev_hash equal to the block_hash of the block just before it.
C1_PrevHashLinksBlocks ==
    \A i \in 2..Len(blocks) : blocks[i].prev_hash = blocks[i - 1].block_hash

\* a second block appended by a seal that ran while another seal was suspended
C1_TwoBlocksFromInterleavedSeals ==
    /\ Len(blocks) >= 2
    /\ blocks[2].block_hash # computeBlockHash(blocks[2].prev_hash, blocks[2].events)

\* C2: every block of blocks has block_hash = hash(prev_hash, encoding of its
\* events): the events and prev_hash stored in the block are the ones the
\* hash was computed over, also when events are added, or another seal or a
\* reset runs, while sealBlock awaits the digest.
C2_BlockHashCoversBlock ==
    \A i \in 1..Len(blocks) :
        blocks[i].block_hash = computeBlockHash(blocks[i].prev_hash, blocks[i].events)

\* C3: every token that sealDocument wrote, checked by verify.js with the
\* public key of the signing key, is reported with a valid signature and a
\* valid chain: VERIFICATION PASSED.
C3_ExtensionTokenPasses ==
    \A f \in InFlight :
        f.downloaded =>
            /\ VerifyScript(f.jws, "none").signature = "VALID"
            /\ VerifyScript(f.jws, "none").chain = "VALID"
            /\ VerifyScript(f.jws, "none").verdict = "PASSED"

\* the signature of the token, the chain of the token, every hash of the
\* chain recomputed, every link of the chain, stated without the loop
SignatureHolds(file) ==
    /\ Len(file) = 3
    /\ Base64UrlDecodeJSON(file[3]).key = "pkcs8"
    /\ Base64UrlDecodeJSON(file[3]).input = <<file[1], file[2]>>
EveryHashHolds(chain) ==
    \A i \in 1..Len(chain) :
        chain[i].block_hash = SHA256Hex(chain[i].prev_hash \o JSONStringify(chain[i].events))
EveryLinkHolds(chain) ==
    \A i \in 2..Len(chain) : chain[i].prev_hash = chain[i - 1].block_hash

\* C4: the script reports VERIFICATION PASSED only if the signature check
\* passed and every block passed the hash recomputation and the linkage
\* check; in every other case it does not report success.
C4_PassedOnlyIfSignatureAndChainHold ==
    (output.ran /\ output.verdict = "PASSED") =>
        /\ SignatureHolds(humansignFile)
        /\ EveryHashHolds(ChainIn(humansignFile))
        /\ EveryLinkHolds(ChainIn(humansignFile))

\* a two-block token that passed
C4_TwoBlockTokenPassed ==
    /\ output.ran
    /\ output.verdict = "PASSED"
    /\ Len(ChainIn(humansignFile)) = 2

\* C5: starting from a token whose chain the script accepts, one change of an
\* event's timestamp or type, or of a block_hash or prev_hash, makes the
\* script report the chain as invalid.
C5_SingleEditReportedAsInvalidChain ==
    ( /\ output.ran
      /\ Len(edits) = 1
      /\ edits[1] \in FieldEdits
      /\ VerifyScript(signedFile, documentFile).chain = "VALID" )
    => output.chain = "INVALID"

\* C6: under any interleaving of the seal triggers, no block with an empty
\* events sequence is in blocks, and no two blocks come from the same pending
\* events (no two blocks carry the same block_hash).
C6_NoEmptyOrDuplicateBlock ==
    /\ \A i \in 1..Len(blocks) : blocks[i].events # <<>>
    /\ \A i, j \in 1..Len(blocks) :
          i # j => blocks[i].block_hash # blocks[j].block_hash

\* C7: in every reachable state eventCount is the number of events in the
\* sealed blocks plus the number of pending events.
C7_EventCountIsSealedPlusPending ==
    eventCount = SumEvents(blocks) + Len(currentEvents)

\* sealed and pending events while a seal is suspended
C7_SealedAndPendingDuringSeal ==
    /\ blocks # <<>>
    /\ currentEvents # <<>>
    /\ \E f \in InFlight : f.pc = "digest"

C9_FirstBlockStartsAtGenesis ==
    blocks # <<>> => blocks[1].prev_hash = GENESIS

\* the first block was pushed by a sealBlock that a reset overtook
C9_FirstBlockSealedAcrossReset ==
    /\ blocks # <<>>
    /\ blocks[1].events = <<>>

\* C10: SEAL_DOCUMENT on a chain with no blocks after the flush fails with an
\* error and signs nothing; no token with a chain of zero blocks is produced.
C10_EmptyChainIsNeverSigned ==
    \A f \in InFlight :
        /\ f.pc \in {"doc_hash", "import_key", "sign", "download"} =>
              ChainOf(f) # <<>>
        /\ f.jws # NoToken => ChainIn(f.jws) # <<>>
        /\ (f.pc = "respond" /\ f.response.error = "No keystroke events recorded") =>
              (f.jws = NoToken /\ ~f.downloaded)

\* a SEAL_DOCUMENT that found no blocks and answers with the error
C10_SealDocumentOnEmptyChainFailed ==
    \E f \in InFlight :
        /\ f.pc = "respond"
        /\ f.response.error = "No keystroke events recorded"

\* the events of the blocks of a chain, in chain order
RECURSIVE EventsOf(_)
EventsOf(chain) ==
    IF chain = <<>> THEN <<>> ELSE Head(chain).events \o EventsOf(Tail(chain))

\* the events of a are all in b, in the same order
RECURSIVE IsSubsequence(_, _)
IsSubsequence(a, b) ==
    IF a = <<>> THEN TRUE
    ELSE IF b = <<>> THEN FALSE
    ELSE IF Head(a) = Head(b) THEN IsSubsequence(Tail(a), Tail(b))
    ELSE IsSubsequence(a, Tail(b))

\* the events the chain held, sealed or pending, when sealDocument was called
AcceptedAtCall(f) == EventsOf(f.atCall.blocks) \o f.atCall.currentEvents

\* C11: every event accepted before a SEAL_DOCUMENT request started (and not
\* removed by a RESET_SESSION or by the startup load since) is contained, in capture order, in the
\* chain of the token that the request signs.
C11_TokenHoldsEventsAcceptedBeforeCall ==
    \A f \in InFlight :
        (f.jws # NoToken /\ ~f.resetSince /\ ~f.loadedSince) =>
            IsSubsequence(AcceptedAtCall(f), EventsOf(ChainIn(f.jws)))

\* the events the chain holds, sealed or pending
EventsHeld == EventsOf(blocks) \o currentEvents

\* a sealDocument that failed: its handler is left with the error to send
Failed(f) ==
    /\ f.type = "SEAL_DOCUMENT"
    /\ f.pc = "respond"
    /\ f.response.error # "none"

\* C12: the chain loses events only in a RESET_SESSION, in the load of startup
\* or in the reset of a sealDocument whose token is signed and whose download
\* has started; when a sealDocument fails (key loading, key import, empty
\* chain, download), and neither a reset of another handler nor the load of
\* startup ran since it was called, every event the chain held at the call
\* is still in blocks or currentEvents.
C12_ResetOnlyAfterHandOff ==
    /\ [](\A f \in InFlight :
            (Failed(f) /\ ~f.resetSince /\ ~f.sealedSince /\ ~f.loadedSince) =>
                IsSubsequence(AcceptedAtCall(f), EventsHeld))
    /\ [][ ~IsSubsequence(EventsHeld, EventsHeld') =>
              \/ RecvReset
              \/ StorageLoaded
              \/ \E f \in InFlight : ResumeDownload(f) /\ f.jws # NoToken ]_vars

\* a sealDocument failed at the download with events accepted before the call
C12_DownloadFailedWithEvents ==
    \E f \in InFlight :
        /\ Failed(f)
        /\ f.response.error = "Download failed"
        /\ AcceptedAtCall(f) # <<>>
        /\ ~f.resetSince /\ ~f.sealedSince /\ ~f.loadedSince

\* C13: when sealDocument fails, blocks, currentEvents, previousHash and
\* eventCount are what they were when it was called (no event was added and
\* neither another handler nor the load of startup replaced the chain in
\* between).
C13_FailedSealDocumentLeavesChain ==
    \A f \in InFlight :
        (Failed(f) /\ ~f.resetSince /\ ~f.sealedSince /\ ~f.loadedSince
                   /\ eventCount = f.atCall.eventCount) =>
            toJSON(blocks, currentEvents, previousHash, eventCount) = f.atCall

\* C14: for every reachable state of a chain, with or without pending events,
\* EventChain.fromJSON(chain.toJSON()) has the blocks, currentEvents,
\* previousHash and eventCount of the chain.
C14_FromJSONOfToJSONIsTheChain ==
    fromJSON(toJSON(blocks, currentEvents, previousHash, eventCount))
        = [blocks |-> blocks, currentEvents |-> currentEvents,
           previousHash |-> previousHash, eventCount |-> eventCount]

\* a chain with a block and pending events was restored from its snapshot
C14_RestoredWithPendingEvents ==
    /\ result.op = "fromJSON"
    /\ blocks # <<>>
    /\ currentEvents # <<>>

\* C15: once the load of startup has run, whenever no handler is in progress
\* and a snapshot is stored, the stored snapshot has the blocks, currentEvents,
\* previousHash and eventCount of the chain in memory.
C15_StoredSnapshotIsTheChainWhenIdle ==
    (loaded /\ handlers = EmptyBag /\ storage.saved) =>
        storage.eventChain = toJSON(blocks, currentEvents, previousHash, eventCount)

\* C16: for the previous hash and the events of every block of a signed
\* token, the worker's computeBlockHash, the computeBlockHash of lib/crypto.js
\* and the recomputation of the verification script give the same hash.
C16_OneBlockHashInEveryImplementation ==
    \A i \in 1..Len(ChainIn(signedFile)) :
        LET block == ChainIn(signedFile)[i]
        IN /\ computeBlockHash(block.prev_hash, block.events)
                = computeBlockHashLib(block.prev_hash, block.events)
           /\ computeBlockHashLib(block.prev_hash, block.events)
                = computedHash(block)

\* the file holds the chain of a two-block token that the script passes, with
\* only the prev_hash of its second block replaced by another string
SecondPrevHashReplaced ==
    /\ VerifyScript(signedFile, "none").verdict = "PASSED"
    /\ Len(ChainIn(signedFile)) = 2
    /\ Len(humansignFile) = 3
    /\ \E h \in HashValues(ChainIn(signedFile)) :
          /\ h # ChainIn(signedFile)[2].prev_hash
          /\ ChainIn(humansignFile) = [ChainIn(signedFile) EXCEPT ![2].prev_hash = h]

\* C17: when the prev_hash of the second block of a valid two-block chain is
\* replaced by a wrong string (and the token signed again, so that the script
\* reaches its chain check), the script reports a broken link at index 1, not
\* a hash mismatch, and the verdict is FAILED.
C17_WrongPrevHashReportedAsBrokenLink ==
    (output.ran /\ output.signature = "VALID" /\ SecondPrevHashReplaced) =>
        /\ output.chain = "INVALID"
        /\ output.kind = "prev_hash"
        /\ output.index = 1
        /\ output.verdict = "FAILED"

\* C18: a token with a valid signature whose first block has a prev_hash other
\* than "GENESIS" is reported with an invalid chain and VERIFICATION FAILED,
\* also when every block hash and every later link is consistent.
C18_FirstBlockNotAtGenesisRejected ==
    ( /\ output.ran
      /\ output.signature = "VALID"
      /\ ChainIn(humansignFile) # <<>>
      /\ ChainIn(humansignFile)[1].prev_hash # GENESIS )
    => /\ output.chain = "INVALID"
       /\ output.verdict = "FAILED"

\* C19: when the signature of the token is the extension key's, every block
\* hash and every link of its chain holds, and the document given has another
\* SHA-256 than payload.document_hash, the script reports a document
\* mismatch; and for every token the signature result, the chain result and
\* the verdict are the same whichever document, or none, is given.
C19_DocumentMismatchReportedOnly ==
    output.ran =>
        /\ ( /\ SignatureHolds(humansignFile)
             /\ EveryHashHolds(ChainIn(humansignFile))
             /\ EveryLinkHolds(ChainIn(humansignFile))
             /\ documentFile # "none"
             /\ computeDocumentHash(documentFile)
                    # PayloadOf(humansignFile).document_hash )
           => output.document = "MISMATCH"
        /\ \A d \in DocumentFiles :
              LET other == VerifyScript(humansignFile, d)
              IN /\ other.signature = output.signature
                 /\ other.chain = output.chain
                 /\ other.kind = output.kind
                 /\ other.index = output.index
                 /\ other.verdict = output.verdict

\* C20: the script verifies the signature over the first and second segment
\* of the file as received; when a token signed with the extension's key has
\* its header, its payload or its signature changed (the file still parses,
\* and the holder of the extension's key did not sign it again), the script
\* reports the signature INVALID and ends in failure: exit code 1, no
\* VERIFICATION PASSED.
C20_ChangedSegmentFailsSignature ==
    /\ output.ran =>
          (output.signature = "VALID" <=> SignatureHolds(humansignFile))
    /\ ( /\ output.ran
         /\ SignatureHolds(signedFile)
         /\ humansignFile # signedFile
         /\ \A k \in 1..Len(edits) : edits[k] # "resign" )
       => /\ output.signature = "INVALID"
          /\ output.exit = 1
          /\ output.verdict # "PASSED"

\* C21: for every file of three segments the script reports a result of the
\* signature check and a result of the chain check, whatever the first of
\* them found.
C21_EveryCheckReported ==
    (output.ran /\ Len(humansignFile) = 3) =>
        /\ output.signature \in {"VALID", "INVALID"}
        /\ output.chain \in {"VALID", "INVALID"}

\* C22: what the script prints as statistics has no part in its outcome: it
\* reports VERIFICATION PASSED exactly when the signature is the extension
\* key's over the two segments received, every block hash is the hash of the
\* block and every link holds, also for a chain of no block and for a chain
\* whose last block has no events.
C22_OutcomeFromSignatureAndChainAlone ==
    output.ran =>
        (output.verdict = "PASSED" <=>
            /\ SignatureHolds(humansignFile)
            /\ EveryHashHolds(ChainIn(humansignFile))
            /\ EveryLinkHolds(ChainIn(humansignFile)))

\* C23: a file that does not split into exactly three segments makes the
\* script exit with code 1 with no result of the signature, the document or
\* the chain check, and without VERIFICATION PASSED.
C23_MalformedTokenRejectedFirst ==
    (output.ran /\ Len(humansignFile) # 3) =>
        /\ output.exit = 1
        /\ ~output.crashed
        /\ output.signature = "none"
        /\ output.document = "none"
        /\ output.chain = "none"
        /\ output.verdict = "none"

\* a file of four segments, the first three a token that passes, was verified
C23_FourSegmentsVerified ==
    /\ output.ran
    /\ Len(humansignFile) = 4
    /\ VerifyScript(SubSeq(humansignFile, 1, 3), "none").verdict = "PASSED"

\* C24: no token is signed with a private key given in another form than
\* PKCS#8: createJWS with a PKCS#1 key ends with the error of the import.
C24_OnlyPKCS8KeysSign ==
    (result.op = "createJWS" /\ ~result.isNull) =>
        Base64UrlDecodeJSON(result.value[3]).key = "pkcs8"

\* C25: whatever the chain holds and whatever handler is suspended, the step
\* that handles RESET_SESSION leaves blocks empty, currentEvents empty,
\* previousHash "GENESIS" and eventCount 0, and that is what it stores.
C25_ResetGivesTheInitialChain ==
    [][RecvReset =>
          /\ blocks' = <<>>
          /\ currentEvents' = <<>>
          /\ previousHash' = GENESIS
          /\ eventCount' = 0
          /\ storage'.eventChain = toJSON(<<>>, <<>>, GENESIS, 0)]_vars

\* a RESET_SESSION was handled while a sealDocument called on a chain with a
\* sealed block and a pending event had not signed yet, and the chain is empty
C25_ResetOfSealedAndPending ==
    /\ \E f \in InFlight :
          /\ f.resetSince
          /\ f.jws = NoToken
          /\ f.atCall.blocks # <<>>
          /\ f.atCall.currentEvents # <<>>
    /\ blocks = <<>>
    /\ currentEvents = <<>>
    /\ previousHash = GENESIS
    /\ eventCount = 0

\* C26: in the step in which finalize() returns, what it returns is the
\* blocks of the chain, nothing is pending any more, the events of the
\* returned blocks are the events added since the last reset, in the order
\* they were added, and a finalize() called with nothing pending leaves the
\* blocks as they are.
C26_FinalizeReturnsEveryEvent ==
    [][ /\ (LibFinalize /\ NothingPending) =>
              /\ result' = Returned("finalize", blocks)
              /\ UNCHANGED <<chainVars, handlers>>
        /\ \A f \in InFlight :
              (f.ret = "finalize" /\ LibSealBlockResume(f)) =>
                  /\ result' = Returned("finalize", blocks')
                  /\ currentEvents' = <<>>
                  /\ EventsOf(blocks') = [n \in 1..eventCount' |-> EventAt(n - 1)]
      ]_vars

\* finalize() returned two blocks, the second sealed by itself
C26_FinalizeSealedTheSecondBlock ==
    /\ result.op = "finalize"
    /\ Len(result.value) = 2
    /\ result.value = blocks
    /\ currentEvents = <<>>
    /\ handlers = EmptyBag

\* C27: no block that holds an event with a timestamp that is not an integer
\* is sealed into the chain: hashing such a block ends with an error.
C27_NoBlockWithNonIntegerTimestamp ==
    \A i \in 1..Len(blocks) :
        \A j \in 1..Len(blocks[i].events) : blocks[i].events[j][1] # Fractional

\* C28: in every reachable state the events of the blocks, in chain order,
\* followed by the pending events are the events accepted by addEvent since
\* the last reset, in the order they were accepted: each once, none missing.
C28_SealedThenPendingIsWhatWasAccepted ==
    EventsOf(blocks) \o currentEvents = [n \in 1..eventCount |-> EventAt(n - 1)]

\* two blocks and a pending event, one block sealed while events were added
\* during the await of its hash
C28_EventsAddedDuringASeal ==
    /\ Len(blocks) = 2
    /\ currentEvents # <<>>
    /\ \E i \in 1..Len(blocks) :
          /\ Len(blocks[i].events) > 1
          /\ blocks[i].block_hash #
                 computeBlockHash(blocks[i].prev_hash, blocks[i].events)

\* C29: the chain serialized and signed by createJWS is the chain the payload
\* held when sealDocument built it, whatever was handled while the key import
\* was awaited.
C29_SignedChainIsTheChainAtConstruction ==
    [][ \A f \in InFlight :
            (ResumeImportKey(f) /\ privateKey = "pkcs8") =>
                \E g \in InFlight' : g.jws = createJWS(f.payload, privateKey)
      ]_vars

\* C30: at every moment at most one deferred seal timer is scheduled, and in
\* a step in which a handler starts and runs into sealCurrentBlock no timer
\* scheduled before it stays scheduled.
C30_OneDeferredSealAndSealsCancelIt ==
    [][ /\ Cardinality(timers') <= 1
        /\ ( /\ BagCardinality(handlers') > BagCardinality(handlers)
              /\ \E g \in InFlight' :
                    /\ g.pc \in {"digest", "seal_save"}
                    /\ CopiesIn(g, handlers') > CopiesIn(g, handlers) ) =>
               timers \cap timers' = {}
      ]_vars

\* C31: a timer whose callback seals pending events was scheduled when the
\* first of these events was accepted or later, so that BLOCK_TIME_THRESHOLD
\* has elapsed since that event when the timer expires; also for the first
\* block after a RESET_SESSION or after a seal.
C31_TimerSealsOnlyAfterTheThreshold ==
    [][ \A t \in timers :
            (TimerFire(t) /\ currentEvents # <<>>) => t \notin scheduledBefore
      ]_vars

\* C32: no block holds more than BLOCK_SIZE_THRESHOLD events, and when no
\* handler is in progress fewer than BLOCK_SIZE_THRESHOLD events are pending.
C32_ThresholdBoundsBlockSize ==
    /\ \A i \in 1..Len(blocks) : Len(blocks[i].events) <= BLOCK_SIZE_THRESHOLD
    /\ handlers = EmptyBag => Len(currentEvents) < BLOCK_SIZE_THRESHOLD

\* C33: the eventCount and blockCount of a successful SEAL_DOCUMENT response
\* are the number of events and of blocks in the chain of the signed token.
C33_ResponseCountsTheSignedChain ==
    \A f \in InFlight :
        (f.pc = "respond" /\ f.response.success) =>
            /\ f.response.blockCount = Len(Base64UrlDecodeJSON(f.jws[2]).chain)
            /\ f.response.eventCount =
                   SumEvents(Base64UrlDecodeJSON(f.jws[2]).chain)

\* C34: the reset at the end of sealDocument removes no event that is not in
\* the chain of the token it signed: every event held in blocks or
\* currentEvents when it resets, accepted during its awaits included, is in
\* that token (the load of startup not having replaced the chain meanwhile).
C34_SealDocumentResetsOnlySignedEvents ==
    [][ \A f \in InFlight :
            (ResumeDownload(f) /\ ~f.loadedSince) =>
                IsSubsequence(EventsHeld,
                              EventsOf(Base64UrlDecodeJSON(f.jws[2]).chain))
      ]_vars

\* C35: whenever events are pending and no handler is in progress, a deferred
\* seal timer is scheduled (so that the events are sealed when it expires),
\* also for pending events restored from storage at startup.
C35_PendingEventsHaveATimer ==
    (currentEvents # <<>> /\ handlers = EmptyBag) => timers # {}

\* C36: a KEYSTROKE_EVENT received while isRecording is false leaves blocks,
\* currentEvents, previousHash, eventCount, the seal timer and the stored
\* snapshot as they are; no step taken while isRecording is false adds an
\* event or schedules a timer (the load of startup restores stored events).
C36_KeystrokeIgnoredWhenNotRecording ==
    [][ /\ RecvKeystrokeIgnored(EventAt(eventCount)) =>
              UNCHANGED <<chainVars, blockSealTimer, timers, storage>>
        /\ (~isRecording /\ ~StorageLoaded) =>
              /\ eventCount' <= eventCount
              /\ IsSubsequence(EventsHeld', EventsHeld)
              /\ timers' \subseteq timers
      ]_vars

\* one message was received, a KEYSTROKE_EVENT while not recording: the chain
\* restored at startup and the stored snapshot are as they were
C36_KeystrokeIgnoredAfterStartup ==
    /\ received = 1
    /\ ~isRecording
    /\ handlers = EmptyBag
    /\ keyFile = "pkcs8"
    /\ loaded
    /\ currentEvents = <<EventAt(1)>>
    /\ storage = [saveState(<<EarlierBlock>>, <<EventAt(1)>>,
                            EarlierBlock.block_hash, 2, 1, TRUE)
                      EXCEPT !.isRecording = FALSE]

\* C37: in the step in which a STOP_SESSION completes, isRecording is false
\* and no events are pending.
C37_StopLeavesNothingPending ==
    [][ \A f \in InFlight :
            (f.ret = "stop" /\ ResumeStopSealed(f)) =>
                /\ ~isRecording'
                /\ currentEvents' = <<>>
      ]_vars

\* C38: when the load of startup has run, recording is off and, if a snapshot
\* is stored, the chain is the stored snapshot, whatever was handled before;
\* and isRecording becomes true only in the handling of a START_SESSION.
C38_LoadGivesStoredChainAndNoRecording ==
    [][ /\ StorageLoaded =>
              /\ ~isRecording'
              /\ storage'.saved =>
                    storage'.eventChain =
                        toJSON(blocks', currentEvents', previousHash', eventCount')
        /\ (~isRecording /\ isRecording') => RecvStart
      ]_vars

\* C39: when the background worker answers a KEYSTROKE_BATCH with a failure
\* or not at all, the events of that batch are back in the buffer, in front
\* of the events buffered since and in their order.
C39_FailedBatchIsPutBack ==
    [][ \A f \in BagToSet(suspended) :
            (FlushResponse(f, "failure") \/ FlushResponse(f, "none")) =>
                events' = f.eventsToSend \o events
      ]_vars

\* C40: when stop() has sent END_SESSION and is about to reset the tracker,
\* the buffer is empty and every captured event was sent in a batch.
C40_StopSendsEveryBufferedEvent ==
    (\E f \in BagToSet(suspended) : f.pc = "end") =>
        /\ events = <<>>
        /\ \A n \in 1..captured :
              \E i \in 1..Len(sent) :
                  \E j \in 1..Len(sent[i]) : sent[i][j].client_timestamp = n
====
